---- MODULE Spec2Model ----
(***************************************************************************)
(* State-machine model of hendryns/koordinat-konverter: the DMS <-> DD     *)
(* angle notation of app2.py / app3.py, the pattern extraction of app.py   *)
(* (process_gemini_request), the conversion orchestrators and the chat     *)
(* handlers.                                                               *)
(*                                                                         *)
(* Representation.  A Python str is a sequence of one-character strings    *)
(* over the alphabet Latin-1 (U+0000..U+00FF).  A Python float is an IEEE  *)
(* 754 binary64 number, held as sign, odd mantissa and exponent; every     *)
(* float operation of the code (the conversion of a decimal literal, +, -, *)
(* *, /, int(), the formatting with two fractional digits) is computed     *)
(* exactly and rounded to the nearest float, ties to even, as the hardware *)
(* does.  A Python int is a sign and a magnitude of any size.              *)
(* External collaborators (the pyproj transform, the Gemini text service)  *)
(* are the environment: their outcome is chosen with \E.                   *)
(***************************************************************************)
EXTENDS Integers, Sequences, FiniteSets, TLC

VARIABLES
    op,        \* the operation that acted last ("idle" after construction)
    arg,       \* its arguments
    ret,       \* what it returned (or the reply it produced)
    calls,     \* the external transform calls it made, in order
    raised,    \* the exception that escaped it, or "none"
    messages,  \* st.session_state.messages: the chat history
    generated, \* the number of generate_content calls made to the text service (a
               \* call that has not returned yet included)
    documents, \* the documents written to the konversi_chatbot collection
    pending    \* the document handed to doc_ref.set while the write has not returned
               \* (None otherwise)

vars == <<op, arg, ret, calls, raised, messages, generated, documents, pending>>

\* F(x) with x evaluated once, where F uses its argument several times or hands it
\* on to a recursive call (an operator argument is otherwise evaluated at each use)
Let(x, F(_)) == CHOOSE r \in { F(v) : v \in {x} } : TRUE

\* Python values that are no string: every one is a record, so that any two compare
None == [none |-> TRUE]

Exc(name) == [exc |-> name]

(***************************************************************************)
(* Characters                                                              *)
(***************************************************************************)
DigitChars == <<"0", "1", "2", "3", "4", "5", "6", "7", "8", "9">>

IsDigit(c) == \E i \in 1..10 : DigitChars[i] = c

DigitVal(c) == (CHOOSE i \in 1..10 : DigitChars[i] = c) - 1

\* the characters of Latin-1 that str.lower() changes, and what it makes of them
UpperChars ==
    <<"A", "B", "C", "D", "E", "F", "G", "H", "I", "J", "K", "L", "M",
      "N", "O", "P", "Q", "R", "S", "T", "U", "V", "W", "X", "Y", "Z",
      "À", "Á", "Â", "Ã", "Ä", "Å", "Æ", "Ç", "È", "É", "Ê", "Ë", "Ì",
      "Í", "Î", "Ï", "Ð", "Ñ", "Ò", "Ó", "Ô", "Õ", "Ö", "Ø", "Ù", "Ú",
      "Û", "Ü", "Ý", "Þ">>

LowerChars ==
    <<"a", "b", "c", "d", "e", "f", "g", "h", "i", "j", "k", "l", "m",
      "n", "o", "p", "q", "r", "s", "t", "u", "v", "w", "x", "y", "z",
      "à", "á", "â", "ã", "ä", "å", "æ", "ç", "è", "é", "ê", "ë", "ì",
      "í", "î", "ï", "ð", "ñ", "ò", "ó", "ô", "õ", "ö", "ø", "ù", "ú",
      "û", "ü", "ý", "þ">>

\* str.lower() on one character
LowerChar(c) ==
    IF \E i \in 1..Len(UpperChars) : UpperChars[i] = c
    THEN LowerChars[CHOOSE i \in 1..Len(UpperChars) : UpperChars[i] = c]
    ELSE c

\* str.lower()
lower(s) == [i \in 1..Len(s) |-> LowerChar(s[i])]

\* str.replace(old, new) for a one-character old and new
replace(s, old, new) == [i \in 1..Len(s) |-> IF s[i] = old THEN new ELSE s[i]]

RECURSIVE Concat(_)
\* the concatenation of a sequence of strings
Concat(ss) == IF ss = <<>> THEN <<>> ELSE Head(ss) \o Concat(Tail(ss))

\* the characters of Latin-1 for which str.isspace() holds: tab, line feed, vertical
\* tab, form feed, carriage return, the separators U+001C..U+001F, the space, U+0085
\* and the no-break space
SpaceChars == {"\t", "\n", "", "\f", "\r", "", "", "", "", " ", "", " "}

IsSpace(c) == c \in SpaceChars

RECURSIVE LStrip(_)
LStrip(s) == IF s # <<>> /\ IsSpace(Head(s)) THEN LStrip(Tail(s)) ELSE s

RECURSIVE RStrip(_)
RStrip(s) ==
    IF s # <<>> /\ IsSpace(s[Len(s)]) THEN RStrip(SubSeq(s, 1, Len(s) - 1)) ELSE s

\* str.strip()
strip(s) == RStrip(LStrip(s))

(***************************************************************************)
(* Natural numbers of any size (Python int magnitudes, float mantissas):   *)
(* sequences of limbs in base 2^15, least significant first, without a     *)
(* zero as the last limb; <<>> is 0                                        *)
(***************************************************************************)
Base == 32768

LimbBits == 15

Abs(n) == IF n < 0 THEN -n ELSE n

RECURSIVE Pow2(_)
Pow2(k) == IF k = 0 THEN 1 ELSE 2 * Pow2(k - 1)

RECURSIVE BNat(_)
\* the natural number n
BNat(n) == IF n = 0 THEN <<>> ELSE <<n % Base>> \o BNat(n \div Base)

RECURSIVE BInt(_)
\* the value of a, for a < 2^31
BInt(a) == IF a = <<>> THEN 0 ELSE Head(a) + Base * BInt(Tail(a))

\* a without the zeros at its end
BNorm(a) ==
    IF \A i \in 1..Len(a) : a[i] = 0 THEN <<>>
    ELSE SubSeq(a, 1, CHOOSE i \in 1..Len(a) :
                          a[i] # 0 /\ \A j \in (i + 1)..Len(a) : a[j] = 0)

\* limb i of a, 0 beyond its end
Limb(a, i) == IF i <= Len(a) THEN a[i] ELSE 0

RECURSIVE BMulRange(_, _, _, _, _)
\* limbs lo..hi of a times k, plus the carry c: the limbs s and the carry out c (the
\* range is halved, so that the depth of the recursion is logarithmic)
BMulRange(a, k, lo, hi, c) ==
    IF lo = hi
    THEN Let(a[lo] * k + c, LAMBDA t : [s |-> <<t % Base>>, c |-> t \div Base])
    ELSE Let(BMulRange(a, k, lo, (lo + hi) \div 2, c), LAMBDA l :
         Let(BMulRange(a, k, ((lo + hi) \div 2) + 1, hi, l.c), LAMBDA h :
             [s |-> l.s \o h.s, c |-> h.c]))

\* a * k + c for 0 < k < Base and 0 <= c < Base
BMulAdd(a, k, c) ==
    IF a = <<>> THEN BNat(c)
    ELSE Let(BMulRange(a, k, 1, Len(a), c), LAMBDA r : r.s \o BNat(r.c))

RECURSIVE BDivRange(_, _, _, _, _)
\* limbs lo..hi of a, with r carried in from above, divided by k
BDivRange(a, k, lo, hi, r) ==
    IF lo = hi
    THEN Let(r * Base + a[lo], LAMBDA t : [q |-> <<t \div k>>, r |-> t % k])
    ELSE Let(BDivRange(a, k, ((lo + hi) \div 2) + 1, hi, r), LAMBDA h :
         Let(BDivRange(a, k, lo, (lo + hi) \div 2, h.r), LAMBDA l :
             [q |-> l.q \o h.q, r |-> l.r]))

\* a divided by k (0 < k <= Base): the quotient q and the remainder r
BDivSmall(a, k) ==
    IF a = <<>> THEN [q |-> <<>>, r |-> 0]
    ELSE Let(BDivRange(a, k, 1, Len(a), 0), LAMBDA d : [q |-> BNorm(d.q), r |-> d.r])

RECURSIVE BAddRange(_, _, _, _, _)
BAddRange(a, b, lo, hi, c) ==
    IF lo = hi
    THEN Let(Limb(a, lo) + Limb(b, lo) + c, LAMBDA t :
             [s |-> <<t % Base>>, c |-> t \div Base])
    ELSE Let(BAddRange(a, b, lo, (lo + hi) \div 2, c), LAMBDA l :
         Let(BAddRange(a, b, ((lo + hi) \div 2) + 1, hi, l.c), LAMBDA h :
             [s |-> l.s \o h.s, c |-> h.c]))

\* a + b
BAdd(a, b) ==
    IF a = <<>> THEN b
    ELSE IF b = <<>> THEN a
    ELSE Let(BAddRange(a, b, 1, IF Len(a) > Len(b) THEN Len(a) ELSE Len(b), 0),
             LAMBDA r : r.s \o BNat(r.c))

RECURSIVE BSubRange(_, _, _, _, _)
BSubRange(a, b, lo, hi, c) ==
    IF lo = hi
    THEN Let(a[lo] - Limb(b, lo) - c, LAMBDA t :
             [s |-> <<(t + Base) % Base>>, c |-> IF t < 0 THEN 1 ELSE 0])
    ELSE Let(BSubRange(a, b, lo, (lo + hi) \div 2, c), LAMBDA l :
         Let(BSubRange(a, b, ((lo + hi) \div 2) + 1, hi, l.c), LAMBDA h :
             [s |-> l.s \o h.s, c |-> h.c]))

\* a - b for a >= b
BSub(a, b) == IF b = <<>> THEN a ELSE BNorm(BSubRange(a, b, 1, Len(a), 0).s)

\* a < b
BLess(a, b) ==
    \/ Len(a) < Len(b)
    \/ /\ Len(a) = Len(b)
       /\ \E i \in 1..Len(a) : a[i] < b[i] /\ \A j \in (i + 1)..Len(a) : a[j] = b[j]

RECURSIVE BitLen(_)
BitLen(n) == IF n = 0 THEN 0 ELSE 1 + BitLen(n \div 2)

\* the number of bits of a
BBitLen(a) == IF a = <<>> THEN 0 ELSE LimbBits * (Len(a) - 1) + BitLen(a[Len(a)])

\* a * 2^n
BShl(a, n) ==
    LET w == n \div LimbBits
        p == Pow2(n % LimbBits)
        q == Pow2(LimbBits - (n % LimbBits))
    IN  IF a = <<>> THEN <<>>
        ELSE [i \in 1..w |-> 0]
             \o BNorm([i \in 1..(Len(a) + 1) |->
                          (Limb(a, i) % q) * p + (IF i > 1 THEN a[i - 1] \div q ELSE 0)])

\* a \div 2^n
BShr(a, n) ==
    LET w == n \div LimbBits
        p == Pow2(n % LimbBits)
        q == Pow2(LimbBits - (n % LimbBits))
    IN  IF w >= Len(a) THEN <<>>
        ELSE BNorm([i \in 1..(Len(a) - w) |->
                       (a[i + w] \div p) + (Limb(a, i + w + 1) % p) * q])

\* bit i of a (bit 0 is the lowest)
BBit(a, i) ==
    IF i < 0 \/ i \div LimbBits >= Len(a) THEN 0
    ELSE (a[(i \div LimbBits) + 1] \div Pow2(i % LimbBits)) % 2

\* the number of zero bits below the lowest set bit of a # 0
TrailingZeros(a) ==
    LET i == CHOOSE k \in 1..Len(a) : a[k] # 0 /\ \A j \in 1..(k - 1) : a[j] = 0
    IN  LimbBits * (i - 1)
        + (CHOOSE z \in 0..(LimbBits - 1) : a[i] % Pow2(z + 1) = Pow2(z))

\* round-half-to-even of (a + f) / 2^n, where 0 <= f < 1 and sticky says f > 0: the
\* quotient goes up when the bit below it is set and either something lies below that
\* bit or the quotient is odd
BRoundShr(a, n, sticky) ==
    IF n = 0 THEN a
    ELSE Let(BShr(a, n), LAMBDA q :
             IF /\ BBit(a, n - 1) = 1
                /\ \/ sticky
                   \/ BShl(BShr(a, n - 1), n - 1) # a
                   \/ BBit(q, 0) = 1
             THEN BAdd(q, <<1>>) ELSE q)

RECURSIVE Pow10(_)
Pow10(k) == IF k = 0 THEN 1 ELSE 10 * Pow10(k - 1)

RECURSIVE BMulPow10(_, _)
\* n * 10^k
BMulPow10(n, k) ==
    IF k = 0 THEN n
    ELSE IF k <= 4 THEN BMulAdd(n, Pow10(k), 0)
    ELSE Let(BMulPow10(n, k \div 2), LAMBDA m : BMulPow10(m, k - (k \div 2)))

RECURSIVE BDivPow10(_, _, _)
\* n \div 10^k, and whether a remainder was dropped (or sticky was set already)
BDivPow10(n, k, sticky) ==
    IF k = 0 THEN [q |-> n, sticky |-> sticky]
    ELSE IF k <= 4
    THEN Let(BDivSmall(n, Pow10(k)), LAMBDA d : [q |-> d.q, sticky |-> sticky \/ d.r # 0])
    ELSE Let(BDivPow10(n, k \div 2, sticky), LAMBDA h :
             BDivPow10(h.q, k - (k \div 2), h.sticky))

RECURSIVE BDigitsN(_, _)
\* the w decimal digits of a < 10^w, zeros in front
BDigitsN(a, w) ==
    IF w <= 4
    THEN [i \in 1..w |-> DigitChars[((BInt(a) \div Pow10(w - i)) % 10) + 1]]
    ELSE Let(BDivPow10(a, w \div 2, FALSE).q, LAMBDA q :
         Let(BSub(a, BMulPow10(q, w \div 2)), LAMBDA r :
             BDigitsN(q, w - (w \div 2)) \o BDigitsN(r, w \div 2)))

\* the decimal digits of a; none for 0
BDigits(a) ==
    IF a = <<>> THEN <<>>
    ELSE Let(BDigitsN(a, ((BBitLen(a) * 30103) \div 100000) + 1), LAMBDA ds :
             SubSeq(ds, CHOOSE i \in 1..Len(ds) :
                            ds[i] # "0" /\ \A j \in 1..(i - 1) : ds[j] = "0", Len(ds)))

(***************************************************************************)
(* Python int: a sign and a magnitude                                      *)
(***************************************************************************)
PyInt(neg, mag) == [neg |-> neg /\ mag # <<>>, mag |-> mag]

\* the int n, for a number n of the model
IntOf(n) == PyInt(n < 0, BNat(Abs(n)))

IsInt(v) == DOMAIN v = {"neg", "mag"}

\* abs(n)
abs_int(n) == PyInt(FALSE, n.mag)

\* str(n)
str(n) ==
    (IF n.neg THEN <<"-">> ELSE <<>>) \o (IF n.mag = <<>> THEN <<"0">> ELSE BDigits(n.mag))

(***************************************************************************)
(* Python float: IEEE 754 binary64, every operation rounded to nearest,    *)
(* ties to even.  A finite float is [neg, man, exp], standing for          *)
(* (-1)^neg * man * 2^exp with man odd and below 2^53, or man = 0 = exp    *)
(* (the two zeros differ in neg)                                           *)
(***************************************************************************)
ValueError == Exc("ValueError")

IndexError == Exc("IndexError")

OverflowError == Exc("OverflowError")

Inf == [inf |-> 1]

NegInf == [inf |-> -1]

NaN == [nan |-> TRUE]

IsFinite(v) == DOMAIN v = {"neg", "man", "exp"}

IsInf(v) == DOMAIN v = {"inf"}

IsNaN(v) == DOMAIN v = {"nan"}

IsFloat(v) == IsFinite(v) \/ IsInf(v) \/ IsNaN(v)

Zero(neg) == [neg |-> neg, man |-> <<>>, exp |-> 0]

\* the lowest exponent of a bit of a float, and the number of bits of a mantissa
MinExp == -1074

Precision == 53

MaxBits == 1024

\* (-1)^neg * m * 2^e, for m below 2^53 and e >= MinExp: inf when 2^1024 or more
Fin(neg, m, e) ==
    IF m = <<>> THEN Zero(neg)
    ELSE IF BBitLen(m) + e > MaxBits THEN (IF neg THEN NegInf ELSE Inf)
    ELSE Let(TrailingZeros(m), LAMBDA z :
             [neg |-> neg, man |-> BShr(m, z), exp |-> e + z])

\* the float nearest to (-1)^neg * (n + f) * 2^e, where 0 <= f < 1 and sticky says
\* f > 0 (then n has 55 bits or more)
RoundFloat(neg, n, e, sticky) ==
    LET t0 == e + BBitLen(n) - Precision
        t  == IF t0 < MinExp THEN MinExp ELSE t0
    IN  IF t <= e THEN Fin(neg, n, e)
        ELSE Fin(neg, BRoundShr(n, t - e, sticky), t)

\* -a
FNeg(a) ==
    IF IsFinite(a) THEN [a EXCEPT !.neg = ~a.neg]
    ELSE IF IsInf(a) THEN [inf |-> -a.inf]
    ELSE a

\* abs(a)
FAbs(a) ==
    IF IsFinite(a) THEN [a EXCEPT !.neg = FALSE]
    ELSE IF IsInf(a) THEN Inf
    ELSE a

\* a < 0 and a >= 0, for a float a
FNegative(a) ==
    IF IsFinite(a) THEN a.neg /\ a.man # <<>> ELSE IsInf(a) /\ a.inf < 0

FNonNegative(a) == ~IsNaN(a) /\ ~FNegative(a)

FIsZero(a) == IsFinite(a) /\ a.man = <<>>

\* a + b for finite a and b
FAddFinite(a, b) ==
    IF a.man = <<>> /\ b.man = <<>> THEN Zero(a.neg /\ b.neg)
    ELSE IF a.man = <<>> THEN b
    ELSE IF b.man = <<>> THEN a
    ELSE LET e == IF a.exp < b.exp THEN a.exp ELSE b.exp
         IN  Let(BShl(a.man, a.exp - e), LAMBDA x :
             Let(BShl(b.man, b.exp - e), LAMBDA y :
                 IF a.neg = b.neg THEN RoundFloat(a.neg, BAdd(x, y), e, FALSE)
                 ELSE IF x = y THEN Zero(FALSE)
                 ELSE IF BLess(y, x) THEN RoundFloat(a.neg, BSub(x, y), e, FALSE)
                 ELSE RoundFloat(b.neg, BSub(y, x), e, FALSE)))

\* a + b
FAdd(a, b) ==
    IF IsNaN(a) \/ IsNaN(b) THEN NaN
    ELSE IF IsInf(a) THEN (IF IsInf(b) /\ b # a THEN NaN ELSE a)
    ELSE IF IsInf(b) THEN b
    ELSE FAddFinite(a, b)

\* a - b
FSub(a, b) == FAdd(a, FNeg(b))

\* a * k for an int k with 0 < |k| < 2^15
FMulInt(a, k) ==
    IF IsNaN(a) THEN NaN
    ELSE IF IsInf(a) THEN (IF k < 0 THEN FNeg(a) ELSE a)
    ELSE RoundFloat(a.neg # (k < 0), BMulAdd(a.man, Abs(k), 0), a.exp, FALSE)

\* a / k for an int k with 0 < k < 2^15
FDivInt(a, k) ==
    IF ~IsFinite(a) THEN a
    ELSE Let(BDivSmall(BShl(a.man, 80), k), LAMBDA d :
             RoundFloat(a.neg, d.q, a.exp - 80, d.r # 0))

\* float(n) for an int n
float_of_int(n) ==
    IF BBitLen(n.mag) > MaxBits THEN OverflowError
    ELSE Let(RoundFloat(n.neg, n.mag, 0, FALSE), LAMBDA r :
             IF IsInf(r) THEN OverflowError ELSE r)

\* int(a): truncation toward zero; inf and nan raise
int(a) ==
    IF IsInf(a) THEN OverflowError
    ELSE IF IsNaN(a) THEN ValueError
    ELSE PyInt(a.neg, IF a.exp >= 0 THEN BShl(a.man, a.exp) ELSE BShr(a.man, -a.exp))

\* beyond this power of ten every float is inf, and below its inverse 0
MaxDecimalExp == 400

\* the float nearest to (-1)^neg * n * 10^shift
DecimalFloat(neg, n, shift) ==
    IF n = <<>> THEN Zero(neg)
    ELSE IF shift >= 0
    THEN (IF shift > MaxDecimalExp THEN (IF neg THEN NegInf ELSE Inf)
          ELSE RoundFloat(neg, BMulPow10(n, shift), 0, FALSE))
    ELSE IF -shift > ((BBitLen(n) * 30103) \div 100000) + 1 + MaxDecimalExp
    THEN Zero(neg)
    ELSE Let(64 + 4 * (-shift), LAMBDA s :
         Let(BDivPow10(BShl(n, s), -shift, FALSE), LAMBDA d :
             RoundFloat(neg, d.q, -s, d.sticky)))

\* the float a decimal literal denotes: n * 10^-k for a number n of the model
FloatLit(n, k) == DecimalFloat(n < 0, BNat(Abs(n)), -k)

\* round(100 * |a|), ties to even, for a finite a: the hundredths f"{a:.2f}" prints
Hundredths(a) ==
    Let(BMulAdd(a.man, 100, 0), LAMBDA n :
        IF a.exp >= 0 THEN BShl(n, a.exp) ELSE BRoundShr(n, -a.exp, FALSE))

\* f"{a:.2f}"
format_2f(a) ==
    IF IsNaN(a) THEN <<"n", "a", "n">>
    ELSE IF IsInf(a) THEN (IF a.inf < 0 THEN <<"-">> ELSE <<>>) \o <<"i", "n", "f">>
    ELSE Let(BDigits(Hundredths(a)), LAMBDA ds :
         Let(IF Len(ds) < 3 THEN [i \in 1..(3 - Len(ds)) |-> "0"] \o ds ELSE ds, LAMBDA p :
             (IF a.neg THEN <<"-">> ELSE <<>>)
             \o SubSeq(p, 1, Len(p) - 2) \o <<".">> \o SubSeq(p, Len(p) - 1, Len(p))))

(***************************************************************************)
(* float(str): Python's float constructor on a string                      *)
(***************************************************************************)
\* the blanks float() drops at both ends of its argument: the six of ASCII, and the
\* two of Latin-1 beyond ASCII (U+001C..U+001F are blanks for str.strip() only)
IsFloatSpace(c) == c \in SpaceChars \ {"", "", "", ""}

RECURSIVE FloatLStrip(_)
FloatLStrip(s) == IF s # <<>> /\ IsFloatSpace(Head(s)) THEN FloatLStrip(Tail(s)) ELSE s

RECURSIVE FloatRStrip(_)
FloatRStrip(s) ==
    IF s # <<>> /\ IsFloatSpace(s[Len(s)])
    THEN FloatRStrip(SubSeq(s, 1, Len(s) - 1)) ELSE s

RECURSIVE DigitPartEnd(_, _)
\* the index after the longest  digit (_? digit)*  starting at i; i when none
DigitPartEnd(s, i) ==
    IF i > Len(s) \/ ~IsDigit(s[i]) THEN i
    ELSE IF i + 1 <= Len(s) /\ IsDigit(s[i + 1]) THEN DigitPartEnd(s, i + 1)
    ELSE IF i + 2 <= Len(s) /\ s[i + 1] = "_" /\ IsDigit(s[i + 2])
         THEN DigitPartEnd(s, i + 2)
    ELSE i + 1

\* the digits of s[i..j-1], the underscores left out
DigitsOf(s, i, j) == SelectSeq(SubSeq(s, i, j - 1), IsDigit)

RECURSIVE SmallDecimal(_, _, _)
\* the number the digits ds[i..j] write, for at most nine of them
SmallDecimal(ds, i, j) ==
    IF j < i THEN 0 ELSE SmallDecimal(ds, i, j - 1) * 10 + DigitVal(ds[j])

RECURSIVE BDecimal(_, _, _)
\* the number the digits ds[i..j] write
BDecimal(ds, i, j) ==
    IF j - i < 4 THEN BNat(SmallDecimal(ds, i, j))
    ELSE Let(BDecimal(ds, i, (i + j) \div 2), LAMBDA hi :
             BAdd(BMulPow10(hi, j - ((i + j) \div 2)),
                  BDecimal(ds, ((i + j) \div 2) + 1, j)))

\* what an exponent is cut off at: any value beyond makes the float 0 or inf
MaxExponent == 1000000

\* the number the digits ds write, cut off at MaxExponent
ExponentValue(ds) ==
    IF \A i \in 1..Len(ds) : ds[i] = "0" THEN 0
    ELSE LET first == CHOOSE i \in 1..Len(ds) :
                          ds[i] # "0" /\ \A k \in 1..(i - 1) : ds[k] = "0"
         IN  IF Len(ds) - first + 1 > 6 THEN MaxExponent
             ELSE SmallDecimal(ds, first, Len(ds))

\* the value of the numeric literal s (stripped, n = Len(s)) whose digits start at
\* b, whose integer part ends before ie and whose fraction is s[fb..fe-1], or
\* ValueError
FloatNumber(s, n, neg, b, ie, fb, fe) ==
    LET hasE  == fe <= n /\ s[fe] \in {"e", "E"}
        xneg  == hasE /\ fe + 1 <= n /\ s[fe + 1] = "-"
        xs    == IF hasE /\ fe + 1 <= n /\ s[fe + 1] \in {"-", "+"}
                 THEN fe + 2 ELSE fe + 1
    IN  Let(IF hasE THEN DigitPartEnd(s, xs) ELSE fe, LAMBDA xe :
            IF (ie = b /\ fe = fb)          \* no digit in the mantissa
               \/ (hasE /\ xe = xs)         \* an exponent without digits
               \/ xe # n + 1                \* trailing characters
            THEN ValueError
            ELSE Let(DigitsOf(s, b, ie) \o DigitsOf(s, fb, fe), LAMBDA ds :
                     \* the value is ds * 10^(exponent - number of fraction digits)
                     DecimalFloat(neg, BDecimal(ds, 1, Len(ds)),
                                  (IF hasE
                                   THEN (IF xneg THEN -1 ELSE 1)
                                        * ExponentValue(DigitsOf(s, xs, xe))
                                   ELSE 0) - Len(DigitsOf(s, fb, fe)))))

\* float(s0): a float, or ValueError
float(s0) ==
    Let(FloatRStrip(FloatLStrip(s0)), LAMBDA s :
        LET n    == Len(s)
            neg  == n >= 1 /\ s[1] = "-"
            b    == IF n >= 1 /\ s[1] \in {"-", "+"} THEN 2 ELSE 1
            body == lower(SubSeq(s, b, n))
        IN  IF body \in {<<"i", "n", "f">>, <<"i", "n", "f", "i", "n", "i", "t", "y">>}
            THEN (IF neg THEN NegInf ELSE Inf)
            ELSE IF body = <<"n", "a", "n">> THEN NaN
            ELSE Let(DigitPartEnd(s, b), LAMBDA ie :
                     LET dot == ie <= n /\ s[ie] = "."
                         fb  == IF dot THEN ie + 1 ELSE ie
                     IN  Let(IF dot THEN DigitPartEnd(s, fb) ELSE ie, LAMBDA fe :
                             FloatNumber(s, n, neg, b, ie, fb, fe))))

(***************************************************************************)
(* AngleNotation: dms_to_dd                                                *)
(***************************************************************************)
RECURSIVE DigitRunEnd(_, _)
\* the index after the longest run of digits starting at i (i when none)
DigitRunEnd(s, i) ==
    IF i <= Len(s) /\ IsDigit(s[i]) THEN DigitRunEnd(s, i + 1) ELSE i

\* where a match of  [-+]?\d+\.?\d*  that starts at i ends (exclusive); 0: no match
MatchEnd(s, i) ==
    LET j == IF s[i] \in {"-", "+"} THEN i + 1 ELSE i
    IN  Let(DigitRunEnd(s, j), LAMBDA k :
            IF k = j THEN 0
            ELSE DigitRunEnd(s, IF k <= Len(s) /\ s[k] = "." THEN k + 1 ELSE k))

RECURSIVE findall(_, _)
\* re.findall(r"[-+]?\d+\.?\d*", s), scanning from index i
findall(s, i) ==
    IF i > Len(s) THEN <<>>
    ELSE Let(MatchEnd(s, i), LAMBDA e :
             IF e = 0 THEN findall(s, i + 1)
             ELSE <<SubSeq(s, i, e - 1)>> \o findall(s, e))

\* re.search(r"[S|W]", ., re.IGNORECASE) matches these characters: inside a character
\* class "|" is a literal, so the class is {S, |, W} and their other cases (the
\* non-Latin-1 case variant U+017F of "s" is outside the model's alphabet)
\* re.search(r"[S|W]", s, re.IGNORECASE) is not None
search_SW(s) == \E i \in 1..Len(s) : s[i] \in {"S", "s", "W", "w", "|"}

\* dms_to_dd with the sign of the degrees token kept (no abs)
dms_to_dd_signed(dms_str) ==
    Let(findall(replace(dms_str, ",", "."), 1), LAMBDA parts :
    Let(IF Len(parts) > 0 THEN float(parts[1]) ELSE IndexError, LAMBDA d :
    Let(IF Len(parts) > 1 THEN float(parts[2]) ELSE Zero(FALSE), LAMBDA m :
    Let(IF Len(parts) > 2 THEN float(parts[3]) ELSE Zero(FALSE), LAMBDA s :
        IF d = IndexError \/ ValueError \in {d, m, s} THEN None
        ELSE Let(FAdd(FAdd(d, FDivInt(m, 60)), FDivInt(s, 3600)), LAMBDA dd :
                 IF search_SW(dms_str) THEN FMulInt(dd, -1) ELSE dd)))))

\* dms_to_dd with minutes and seconds read unconditionally (IndexError when missing)
dms_to_dd_need3(dms_str) ==
    Let(findall(replace(dms_str, ",", "."), 1), LAMBDA parts :
        IF Len(parts) < 3 THEN None
        ELSE Let(FAdd(FAdd(FAbs(float(parts[1])), FDivInt(float(parts[2]), 60)),
                      FDivInt(float(parts[3]), 3600)), LAMBDA dd :
                 IF search_SW(dms_str) THEN FMulInt(dd, -1) ELSE dd))

\* dms_to_dd(dms_str): a float, or None
dms_to_dd(dms_str) ==
    Let(findall(replace(dms_str, ",", "."), 1), LAMBDA parts :
    Let(IF Len(parts) > 0 THEN float(parts[1]) ELSE IndexError, LAMBDA d :
    Let(IF Len(parts) > 1 THEN float(parts[2]) ELSE Zero(FALSE), LAMBDA m :
    Let(IF Len(parts) > 2 THEN float(parts[3]) ELSE Zero(FALSE), LAMBDA s :
        IF d = IndexError \/ ValueError \in {d, m, s} THEN None
        ELSE Let(FAdd(FAdd(FAbs(d), FDivInt(m, 60)), FDivInt(s, 3600)), LAMBDA dd :
                 IF search_SW(dms_str) THEN FMulInt(dd, -1) ELSE dd)))))

(***************************************************************************)
(* AngleNotation: dd_to_dms                                                *)
(***************************************************************************)
\* math.floor(a) for a finite float a
floor(a) ==
    IF a.neg /\ a.exp < 0 THEN PyInt(TRUE, BAdd(BShr(a.man, -a.exp), <<1>>)) ELSE int(a)

\* dms_fields with the degrees rounded down (math.floor) instead of truncated (int)
dms_fields_floor(dd_val) ==
    Let(floor(dd_val), LAMBDA degrees :
    Let(FMulInt(FSub(FAbs(dd_val), float_of_int(abs_int(degrees))), 60),
        LAMBDA minutes_float :
    Let(int(minutes_float), LAMBDA minutes :
        [degrees |-> degrees,
         minutes_float |-> minutes_float,
         minutes |-> minutes,
         seconds |-> FMulInt(FSub(minutes_float, float_of_int(minutes)), 60)])))

\* dms_fields with the minutes taken from dd_val instead of abs(dd_val)
dms_fields_noabs(dd_val) ==
    Let(int(dd_val), LAMBDA degrees :
    Let(FMulInt(FSub(dd_val, float_of_int(degrees)), 60), LAMBDA minutes_float :
    Let(int(minutes_float), LAMBDA minutes :
        [degrees |-> degrees,
         minutes_float |-> minutes_float,
         minutes |-> minutes,
         seconds |-> FMulInt(FSub(minutes_float, float_of_int(minutes)), 60)])))

\* the locals of dd_to_dms for a finite dd_val: degrees and minutes are ints,
\* minutes_float and seconds floats
dms_fields(dd_val) ==
    Let(int(dd_val), LAMBDA degrees :
    Let(FMulInt(FSub(FAbs(dd_val), float_of_int(abs_int(degrees))), 60),
        LAMBDA minutes_float :
    Let(int(minutes_float), LAMBDA minutes :
        [degrees |-> degrees,
         minutes_float |-> minutes_float,
         minutes |-> minutes,
         seconds |-> FMulInt(FSub(minutes_float, float_of_int(minutes)), 60)])))

\* 'E' if dd_val >= 0 else 'W', or 'N' if dd_val >= 0 else 'S'
dms_direction(dd_val, is_lon) ==
    IF is_lon THEN (IF FNonNegative(dd_val) THEN "E" ELSE "W")
    ELSE (IF FNonNegative(dd_val) THEN "N" ELSE "S")

\* dd_to_dms(dd_val, is_lon) of app2.py: the text, or the exception int(dd_val) raises
\* for inf (OverflowError) and nan (ValueError)
dd_to_dms(dd_val, is_lon) ==
    IF ~IsFinite(dd_val) THEN int(dd_val)
    ELSE Let(dms_fields(dd_val), LAMBDA f :
             str(abs_int(f.degrees)) \o <<"°", " ">>
             \o str(f.minutes) \o <<"'", " ">>
             \o format_2f(f.seconds) \o <<"\"", " ">>
             \o <<dms_direction(dd_val, is_lon)>>)

\* dd_to_dms(dd_val, is_lon) of app3.py: the same, after a guard for None.  The result
\* is None, [text |-> the string], or the exception
dd_to_dms3(dd_val, is_lon) ==
    IF dd_val = None THEN None
    ELSE Let(dd_to_dms(dd_val, is_lon), LAMBDA t :
             IF ~IsFinite(dd_val) THEN t ELSE [text |-> t])

(***************************************************************************)
(* SpecAngle: the two pure functions of AngleNotation, applied to inputs   *)
(* drawn from bounded sets                                                 *)
(***************************************************************************)
MaxPieces == 4

NumFracs == 8

\* the fragments the input texts of dms_to_dd are built from
Pieces ==
    { <<"6">>, <<"-", "3", "0">>, <<"1", ",", "5">>, <<" ">>,
      <<"S">>, <<"w">>, <<"|">>, <<"E">> }

\* every concatenation of at most MaxPieces fragments
Texts == UNION { { Concat(ps) : ps \in [1..n -> Pieces] } : n \in 0..MaxPieces }

DyadicBits == 16

DecimalDigits == 6

DyadicDen == Pow2(DyadicBits)

DecimalDen == Pow10(DecimalDigits)

Degs == {0, 1, 6, 89, 179, 180}

\* fractions of a degree in units of 1/65536: a spread, the exact minute boundaries
\* 1/4 and 1/2, and fractions whose seconds are within 0.005" of the next minute
DyadicFracs ==
    { (k * 40503) % DyadicDen : k \in 0..NumFracs }
    \cup {1, 4369, 16384, 32768, 53521, 65535}

\* fractions of a degree in units of 1e-6: a spread, fractions whose seconds are
\* within 0.005" of the next minute, and fractions that are a whole number of minutes
\* in decimal notation (0.05, 0.1, 0.5), where the nearest float lies below or above
DecimalFracs ==
    { (k * 37037) % DecimalDen : k \in 0..NumFracs }
    \cup {1, 16666, 50000, 100000, 500000, 924800, 999000, 999999}

\* the floats dd_to_dms is applied to: k / 2^16, the floats the decimal literals with
\* six fractional digits denote, and the floats that are no finite number (inf is what
\* the transform returns for a point outside the target's domain)
DdValues ==
    { Fin(sg < 0, BNat(dg * DyadicDen + f), -DyadicBits) :
        sg \in {-1, 1}, dg \in Degs, f \in DyadicFracs }
    \cup { FloatLit(sg * (dg * DecimalDen + f), DecimalDigits) :
        sg \in {-1, 1}, dg \in Degs, f \in DecimalFracs }
    \cup { Inf, NegInf, NaN }

\* the arguments of one call: a text for dms_to_dd, or a value and a flag for dd_to_dms
AngleArgs ==
    { [dms_str |-> t] : t \in Texts }
    \cup { [dd_val |-> v, is_lon |-> b] : v \in DdValues, b \in BOOLEAN }

InitAngle ==
    /\ op = "idle"
    /\ arg \in AngleArgs
    /\ ret = None
    /\ calls = <<>>
    /\ raised = "none"
    /\ messages = <<>>
    /\ generated = 0
    /\ documents = <<>>
    /\ pending = None

\* dms_to_dd(arg.dms_str)
Call_dms_to_dd ==
    /\ op = "idle"
    /\ "dms_str" \in DOMAIN arg
    /\ op' = "dms_to_dd"
    /\ ret' = dms_to_dd(arg.dms_str)
    /\ UNCHANGED <<arg, calls, raised, messages, generated, documents, pending>>

\* dd_to_dms(arg.dd_val, arg.is_lon): the text it returns, or the exception that
\* escapes it
Call_dd_to_dms ==
    /\ op = "idle"
    /\ "dd_val" \in DOMAIN arg
    /\ op' = "dd_to_dms"
    /\ \E r \in {dd_to_dms(arg.dd_val, arg.is_lon)} :
           IF IsFinite(arg.dd_val)
           THEN ret' = [text |-> r] /\ raised' = "none"
           ELSE ret' = None /\ raised' = r.exc
    /\ UNCHANGED <<arg, calls, messages, generated, documents, pending>>

\* dms_to_dd applied to the text dd_to_dms has just produced
Call_round_trip ==
    /\ op = "dd_to_dms"
    /\ raised = "none"
    /\ op' = "round_trip"
    /\ arg' = [dms_str |-> ret.text, dd_val |-> arg.dd_val, is_lon |-> arg.is_lon]
    /\ ret' = dms_to_dd(ret.text)
    /\ UNCHANGED <<calls, raised, messages, generated, documents, pending>>

NextAngle == Call_dms_to_dd \/ Call_dd_to_dms \/ Call_round_trip

SpecAngle == InitAngle /\ [][NextAngle]_vars

(***************************************************************************)
(* Claims about AngleNotation (checked under SpecAngle)                    *)
(***************************************************************************)
IsNumber(r) == IsFinite(r)

\* r <= 0, for a float r
FNonPositive(r) == FNegative(r) \/ FIsZero(r)

\* the numeric tokens of the text dms_to_dd was called with
ArgTokens == findall(replace(arg.dms_str, ",", "."), 1)

\* |d| + m/60 + s/3600 for the first three of the tokens, a missing one read as 0
TokenMagnitude(parts) ==
    LET tok(k) == IF Len(parts) >= k THEN float(parts[k]) ELSE Zero(FALSE)
    IN  FAdd(FAdd(FAbs(tok(1)), FDivInt(tok(2), 60)), FDivInt(tok(3), 3600))

\* C1: for every text with at least one numeric token, dms_to_dd returns v or -v,
\* where v = |d| + m/60 + s/3600 for the first three numeric tokens d, m, s (a ","
\* read as "."), a missing m or s being 0, the sign of d dropped and any token after
\* the third ignored.
C1_Magnitude ==
    (op = "dms_to_dd" /\ Len(ArgTokens) >= 1)
        => Let(TokenMagnitude(ArgTokens), LAMBDA v : ret \in {v, FNeg(v)})

\* a text with four tokens, the first one signed, was converted
C1_Witness ==
    /\ op = "dms_to_dd"
    /\ Len(ArgTokens) >= 4
    /\ ArgTokens[1][1] = "-"
    /\ IsNumber(ret)
    /\ ~FIsZero(ret)

\* the text dms_to_dd was called with holds a letter S or W, in either case
HasSouthOrWest == \E i \in 1..Len(arg.dms_str) : arg.dms_str[i] \in {"S", "s", "W", "w"}

\* C2: the sign of dms_to_dd's result is controlled only by the hemisphere letter:
\* the result is <= 0 when the text holds an S or a W (either case) and >= 0 when
\* it holds none, whatever else the text holds.
C2_SignByLetter ==
    (op = "dms_to_dd" /\ IsNumber(ret))
        => /\ HasSouthOrWest => FNonPositive(ret)
           /\ ~HasSouthOrWest => FNonNegative(ret)

\* C3: dms_to_dd returns None exactly when the text holds no numeric token (which
\* is: no digit), a number in every other case, and raises nothing.
C3_NoneIffNoToken ==
    op = "dms_to_dd"
        => /\ raised = "none"
           /\ (ret = None) <=> (\A i \in 1..Len(arg.dms_str) : ~IsDigit(arg.dms_str[i]))
           /\ ret # None => IsNumber(ret)

\* a text that is not empty and holds no digit was rejected
C3_Witness ==
    /\ op = "dms_to_dd"
    /\ Len(arg.dms_str) >= 2
    /\ \A i \in 1..Len(arg.dms_str) : ~IsDigit(arg.dms_str[i])
    /\ ret = None

\* the text C4 states for the value v: <|degrees|>d <minutes>' <seconds>" <letter>,
\* computed on |v| with the float operations the claim names: the degrees are |v|
\* truncated, the minutes the truncation of (|v| - degrees) * 60, the seconds the
\* rest of the minute times 60
ExpectedDms(v, is_lon) ==
    LET a       == FAbs(v)
        degrees == int(a)
        mf      == FMulInt(FSub(a, float_of_int(degrees)), 60)
        minutes == int(mf)
        seconds == FMulInt(FSub(mf, float_of_int(minutes)), 60)
        letter  == IF is_lon THEN (IF FNegative(v) THEN "W" ELSE "E")
                   ELSE (IF FNegative(v) THEN "S" ELSE "N")
    IN  str(degrees) \o <<"°", " ">> \o str(minutes) \o <<"'", " ">>
        \o format_2f(seconds) \o <<"\"", " ", letter>>

\* C4: for every numeric value, dd_to_dms(value, is_lon) returns the text
\* <|degrees|>d <minutes>' <seconds>" <letter> with degrees = value truncated toward
\* zero, minutes = the truncation of (|value| - |degrees|) * 60, seconds = the rest of
\* the minute times 60 with exactly two fractional digits, and the letter E/W (is_lon)
\* or N/S by value >= 0.
C4_Format ==
    op = "dd_to_dms"
        => /\ raised = "none"
           /\ ret.text = ExpectedDms(arg.dd_val, arg.is_lon)

\* the part of C4 that holds: whenever dd_to_dms returns, which it does for every
\* finite value, it returns the text C4 states
C4_FiniteFormat ==
    (op = "dd_to_dms" /\ raised = "none")
        => ret.text = ExpectedDms(arg.dd_val, arg.is_lon)

\* |v| * d <= n, for a finite float v and numbers n >= 0 and 0 < d < 2^15
AbsAtMost(v, n, d) ==
    Let(BMulAdd(v.man, d, 0), LAMBDA x :
        IF v.exp >= 0 THEN ~BLess(BNat(n), BShl(x, v.exp))
        ELSE ~BLess(BShl(BNat(n), -v.exp), x))

\* |a - b| * d < n, for finite floats a and b and numbers n > 0 and 0 < d < 2^15; the
\* difference is the exact one
DiffBelow(a, b, n, d) ==
    LET e == IF a.exp < b.exp THEN a.exp ELSE b.exp
    IN  Let(BShl(a.man, a.exp - e), LAMBDA x :
        Let(BShl(b.man, b.exp - e), LAMBDA y :
        Let(BMulAdd(IF a.neg # b.neg THEN BAdd(x, y)
                    ELSE IF BLess(x, y) THEN BSub(y, x) ELSE BSub(x, y), d, 0), LAMBDA m :
            IF e >= 0 THEN BLess(BShl(m, e), BNat(n))
            ELSE BLess(m, BShl(BNat(n), -e)))))

\* |a - b| < 1e-4
Within1e4(a, b) == DiffBelow(a, b, 1, 10000)

\* the value of the round trip lies in the range C5 covers
InRoundTripRange ==
    IF arg.is_lon THEN AbsAtMost(arg.dd_val, 179999, 1000)
    ELSE AbsAtMost(arg.dd_val, 89999, 1000)

\* C5: for every latitude in [-89.999, 89.999] and every longitude in
\* [-179.999, 179.999], dms_to_dd(dd_to_dms(value, is_lon)) is within 1e-4 degrees
\* of value, also for values in (-1, 0) and for values whose seconds round up.
C5_RoundTrip ==
    (op = "round_trip" /\ InRoundTripRange)
        => IsNumber(ret) /\ Within1e4(ret, arg.dd_val)

\* a value in (-1, 0) whose seconds print as 60.00 went through the round trip
C5_Witness ==
    /\ op = "round_trip"
    /\ InRoundTripRange
    /\ FNegative(arg.dd_val)
    /\ int(arg.dd_val).mag = <<>>
    /\ Hundredths(dms_fields(arg.dd_val).seconds) = BNat(6000)
    /\ arg.dms_str[1] = "0"

(***************************************************************************)
(* CoordinateCatalogue                                                     *)
(***************************************************************************)
\* coordinate_systems of app.py, flattened in iteration order (category, then name)
coordinate_systems ==
    <<
      [category |-> "Global", crs |-> "EPSG:4326", name |->
         <<"W", "G", "S", " ", "8", "4">>],
      [category |-> "Global", crs |-> "EPSG:7912", name |->
         <<"I", "T", "R", "F", "2", "0", "1", "4">>],
      [category |-> "Global", crs |-> "EPSG:7520", name |->
         <<"P", "Z", "-", "9", "0", ".", "1", "1">>],
      [category |-> "UTM (Indonesia)", crs |-> "EPSG:32648", name |->
         <<"W", "G", "S", " ", "8", "4", " ", "/", " ", "U", "T", "M", " ", "Z",
           "o", "n", "a", " ", "4", "8", "N", " ", "(", "I", "n", "d", "o", "n",
           "e", "s", "i", "a", " ", "B", "a", "r", "a", "t", ")">>],
      [category |-> "UTM (Indonesia)", crs |-> "EPSG:32649", name |->
         <<"W", "G", "S", " ", "8", "4", " ", "/", " ", "U", "T", "M", " ", "Z",
           "o", "n", "a", " ", "4", "9", "N", " ", "(", "I", "n", "d", "o", "n",
           "e", "s", "i", "a", " ", "T", "e", "n", "g", "a", "h", ")">>],
      [category |-> "UTM (Indonesia)", crs |-> "EPSG:32650", name |->
         <<"W", "G", "S", " ", "8", "4", " ", "/", " ", "U", "T", "M", " ", "Z",
           "o", "n", "a", " ", "5", "0", "N", " ", "(", "I", "n", "d", "o", "n",
           "e", "s", "i", "a", " ", "T", "i", "m", "u", "r", ")">>],
      [category |-> "UTM (Indonesia)", crs |-> "EPSG:8052", name |->
         <<"I", "T", "R", "F", "2", "0", "1", "4", " ", "/", " ", "U", "T", "M",
           " ", "Z", "o", "n", "a", " ", "4", "8", "N", " ", "(", "I", "n", "d",
           "o", "n", "e", "s", "i", "a", " ", "B", "a", "r", "a", "t", ")">>],
      [category |-> "UTM (Indonesia)", crs |-> "EPSG:8053", name |->
         <<"I", "T", "R", "F", "2", "0", "1", "4", " ", "/", " ", "U", "T", "M",
           " ", "Z", "o", "n", "a", " ", "4", "9", "N", " ", "(", "I", "n", "d",
           "o", "n", "e", "s", "i", "a", " ", "T", "e", "n", "g", "a", "h", ")">>],
      [category |-> "UTM (Indonesia)", crs |-> "EPSG:8054", name |->
         <<"I", "T", "R", "F", "2", "0", "1", "4", " ", "/", " ", "U", "T", "M",
           " ", "Z", "o", "n", "a", " ", "5", "0", "N", " ", "(", "I", "n", "d",
           "o", "n", "e", "s", "i", "a", " ", "T", "i", "m", "u", "r", ")">>],
      [category |-> "UTM (Indonesia)", crs |-> "EPSG:32748", name |->
         <<"W", "G", "S", " ", "8", "4", " ", "/", " ", "U", "T", "M", " ", "Z",
           "o", "n", "a", " ", "4", "8", "S">>]
    >>

\* coordinate_systems of app2.py and app3.py, in iteration order
coordinate_systems3 ==
    <<
      [category |-> "Global", crs |-> "EPSG:4326", name |->
         <<"W", "G", "S", " ", "8", "4">>],
      [category |-> "Global", crs |-> "EPSG:7912", name |->
         <<"I", "T", "R", "F", "2", "0", "1", "4">>],
      [category |-> "UTM (Indonesia)", crs |-> "EPSG:32648", name |->
         <<"W", "G", "S", " ", "8", "4", " ", "/", " ", "U", "T", "M", " ", "Z",
           "o", "n", "a", " ", "4", "8", "N", " ", "(", "I", "n", "d", "o", "n",
           "e", "s", "i", "a", " ", "B", "a", "r", "a", "t", ")">>],
      [category |-> "UTM (Indonesia)", crs |-> "EPSG:32649", name |->
         <<"W", "G", "S", " ", "8", "4", " ", "/", " ", "U", "T", "M", " ", "Z",
           "o", "n", "a", " ", "4", "9", "N", " ", "(", "I", "n", "d", "o", "n",
           "e", "s", "i", "a", " ", "T", "e", "n", "g", "a", "h", ")">>],
      [category |-> "UTM (Indonesia)", crs |-> "EPSG:32650", name |->
         <<"W", "G", "S", " ", "8", "4", " ", "/", " ", "U", "T", "M", " ", "Z",
           "o", "n", "a", " ", "5", "0", "N", " ", "(", "I", "n", "d", "o", "n",
           "e", "s", "i", "a", " ", "T", "i", "m", "u", "r", ")">>],
      [category |-> "UTM (Indonesia)", crs |-> "EPSG:32748", name |->
         <<"W", "G", "S", " ", "8", "4", " ", "/", " ", "U", "T", "M", " ", "Z",
           "o", "n", "a", " ", "4", "8", "S">>]
    >>

(***************************************************************************)
(* str and list operations used by process_gemini_request                  *)
(***************************************************************************)
\* the index of the first sep at or after i in s, Len(s) + 1 when there is none
RECURSIVE NextSep(_, _, _)
NextSep(s, sep, i) ==
    IF i > Len(s) \/ s[i] = sep THEN i ELSE NextSep(s, sep, i + 1)

RECURSIVE SplitFrom(_, _, _)
SplitFrom(s, sep, i) ==
    Let(NextSep(s, sep, i), LAMBDA j :
        IF j > Len(s) THEN <<SubSeq(s, i, Len(s))>>
        ELSE <<SubSeq(s, i, j - 1)>> \o SplitFrom(s, sep, j + 1))

\* s.split(sep) for a one-character sep: empty strings between adjacent separators
split(s, sep) == SplitFrom(s, sep, 1)

RECURSIVE join(_, _)
\* sep.join(ss)
join(sep, ss) ==
    IF ss = <<>> THEN <<>>
    ELSE IF Len(ss) = 1 THEN ss[1]
    ELSE ss[1] \o sep \o join(sep, Tail(ss))

\* ss.index(w): the 1-based position of the first w, or ValueError
index(ss, w) ==
    IF \E i \in 1..Len(ss) : ss[i] = w
    THEN [pos |-> CHOOSE i \in 1..Len(ss) : ss[i] = w /\ \A k \in 1..(i - 1) : ss[k] # w]
    ELSE ValueError

\* ss[a:b] with 0-based bounds 0 <= a, b (a Python slice: empty when b <= a)
slice(ss, a, b) ==
    IF a >= Len(ss) \/ b <= a THEN <<>>
    ELSE SubSeq(ss, a + 1, IF b > Len(ss) THEN Len(ss) ELSE b)

\* needle in hay
contains(hay, needle) ==
    \E i \in 0..(Len(hay) - Len(needle)) : SubSeq(hay, i + 1, i + Len(needle)) = needle

\* the loops of lines 54-68: the code of the first entry, in iteration order, whose
\* lower-cased name contains name_part; None when there is none
find_crs(catalogue, name_part) ==
    IF \E i \in 1..Len(catalogue) : contains(lower(catalogue[i].name), name_part)
    THEN [crs |-> catalogue[CHOOSE i \in 1..Len(catalogue) :
                      /\ contains(lower(catalogue[i].name), name_part)
                      /\ \A k \in 1..(i - 1) :
                            ~contains(lower(catalogue[k].name), name_part)].crs]
    ELSE None

(***************************************************************************)
(* The external transform (pyproj): the environment                        *)
(***************************************************************************)
\* the identifiers pyproj.Transformer.from_crs accepts: those of the catalogue;
\* any other, such as "EPSG:0000", raises CRSError
RecognisedCrs == { coordinate_systems[i].crs : i \in 1..Len(coordinate_systems) }

Pair(x, y) == [x |-> x, y |-> y]

\* (None, None)
NonePair == Pair(None, None)

\* what a transform between two recognised systems can do: return a pair of
\* numbers (inf for a point outside the target's domain), or fail otherwise
TransformOutcomes ==
    { Pair(FloatLit(788429, 0), FloatLit(9234567, 0)),
      Pair(FloatLit(-69245, 4), FloatLit(1076186, 4)),
      Pair(Inf, Inf),
      Exc("ProjError") }

\* Transformer.from_crs(source_crs, target_crs, always_xy=True).transform(x, y),
\* env being the outcome the library has for recognised systems and numeric input
Transform(x, y, source_crs, target_crs, env) ==
    IF source_crs \notin RecognisedCrs \/ target_crs \notin RecognisedCrs
    THEN Exc("CRSError")
    ELSE IF x = None \/ y = None THEN Exc("TypeError")
    ELSE env

IsExc(v) == DOMAIN v = {"exc"}

\* the record of one call of the transform
TransformCall(x, y, source_crs, target_crs) ==
    [x |-> x, y |-> y, source_crs |-> source_crs, target_crs |-> target_crs]

\* what a function did: the value it returned, the transform calls it made, and the
\* exception it raised ("none" when it returned)
Returned(v, cs) == [ret |-> v, calls |-> cs, raised |-> "none"]

Raised(e, cs) == [ret |-> None, calls |-> cs, raised |-> e.exc]

(***************************************************************************)
(* app.py: convert_coordinates and process_gemini_request                  *)
(***************************************************************************)
\* convert_coordinates(x_coord, y_coord, source_crs, target_crs) of app.py
convert_coordinates1(x_coord, y_coord, source_crs, target_crs, env) ==
    Let(Transform(x_coord, y_coord, source_crs, target_crs, env), LAMBDA r :
    Let(<<TransformCall(x_coord, y_coord, source_crs, target_crs)>>, LAMBDA cs :
        IF r = Exc("CRSError") THEN Returned(NonePair, cs)
        ELSE IF IsExc(r) THEN Raised(r, cs)
        ELSE Returned(r, cs)))

\* the replies of process_gemini_request
NotFoundReply == [kind |-> "not_found"]

BadFormatReply == [kind |-> "bad_format"]

ConversionFailedReply == [kind |-> "conversion_failed"]

\* "Koordinat hasil konversi adalah: X = **{x_conv:.6f}**, Y = **{y_conv:.6f}**"
ConvertedReply(pair) == [kind |-> "converted", x |-> pair.x, y |-> pair.y]

\* lines 53-82 of process_gemini_request, once the names are extracted
resolve_and_convert(x_str, y_str, source_name, target_name, catalogue, env) ==
    Let(find_crs(catalogue, source_name), LAMBDA source_crs :
    Let(find_crs(catalogue, target_name), LAMBDA target_crs :
        IF source_crs = None \/ target_crs = None THEN Returned(NotFoundReply, <<>>)
        ELSE Let(float(x_str), LAMBDA x_val :
             Let(float(y_str), LAMBDA y_val :
                 IF x_val = ValueError \/ y_val = ValueError
                 THEN Returned(BadFormatReply, <<>>)
                 ELSE Let(convert_coordinates1(x_val, y_val, source_crs.crs,
                                               target_crs.crs, env), LAMBDA c :
                          IF c.raised # "none" THEN c
                          ELSE IF c.ret.x # None
                          THEN Returned(ConvertedReply(c.ret), c.calls)
                          ELSE Returned(ConversionFailedReply, c.calls))))))

\* process_gemini_request(prompt, coordinate_systems) of app.py
process_gemini_request(prompt, catalogue, env) ==
    Let(split(replace(lower(prompt), ",", " "), " "), LAMBDA parts :
    Let(index(parts, <<"d", "a", "r", "i">>), LAMBDA dari :
    Let(index(parts, <<"k", "e">>), LAMBDA ke :
        IF Len(parts) < 2 THEN Returned(BadFormatReply, <<>>)       \* IndexError
        ELSE IF dari = ValueError \/ ke = ValueError
        THEN Returned(BadFormatReply, <<>>)                         \* ValueError
        ELSE resolve_and_convert(
                 parts[1], parts[2],
                 strip(join(<<" ">>, slice(parts, dari.pos, ke.pos - 1))),
                 strip(join(<<" ">>, slice(parts, ke.pos, Len(parts)))),
                 catalogue, env))))

(***************************************************************************)
(* app2.py / app3.py: convert_coordinates                                  *)
(***************************************************************************)
\* a Python str held where a number or None may be held too (a form field, a
\* field of the extracted record)
PyStr(s) == [str |-> s]

IsStr(v) == DOMAIN v = {"str"}

DD == PyStr(<<"D", "D">>)

DMS == PyStr(<<"D", "M", "S">>)

UTM == PyStr(<<"U", "T", "M">>)

\* float(v): a str is parsed, a float is itself, an int is converted, None raises
\* TypeError
float_of(v) ==
    IF IsStr(v) THEN float(v.str)
    ELSE IF IsFloat(v) THEN v
    ELSE IF IsInt(v) THEN float_of_int(v)
    ELSE Exc("TypeError")

\* dms_to_dd(v): v.replace raises AttributeError when v is no str
dms_to_dd_of(v) == IF IsStr(v) THEN dms_to_dd(v.str) ELSE Exc("AttributeError")

\* lines 48-65 of app2.py (93-110 of app3.py): the pair (x_dd, y_dd), or NonePair for
\* the early return (None, None), or the exception that escapes
parse_source(x_coord, y_coord, source_format) ==
    IF source_format \in {DD, UTM}
    THEN Let(float_of(x_coord), LAMBDA x_dd :
             IF x_dd = ValueError THEN NonePair
             ELSE IF IsExc(x_dd) THEN x_dd
             ELSE Let(float_of(y_coord), LAMBDA y_dd :
                      IF y_dd = ValueError THEN NonePair
                      ELSE IF IsExc(y_dd) THEN y_dd
                      ELSE [x_dd |-> x_dd, y_dd |-> y_dd]))
    ELSE IF source_format = DMS
    THEN Let(dms_to_dd_of(x_coord), LAMBDA x_dd :
             IF IsExc(x_dd) THEN x_dd
             ELSE Let(dms_to_dd_of(y_coord), LAMBDA y_dd :
                      IF IsExc(y_dd) THEN y_dd
                      ELSE IF x_dd = None \/ y_dd = None THEN NonePair
                      ELSE [x_dd |-> x_dd, y_dd |-> y_dd]))
    ELSE [x_dd |-> None, y_dd |-> None]

\* lines 72-78 of app2.py: dd_to_dms raises OverflowError on inf and ValueError on
\* nan, x being formatted before y, and no branch returns for a target_format outside
\* the three
format_target(r, target_format) ==
    IF target_format \in {DD, UTM} THEN r
    ELSE IF target_format = DMS
    THEN IF ~IsFinite(r.x) THEN dd_to_dms(r.x, TRUE)
         ELSE IF ~IsFinite(r.y) THEN dd_to_dms(r.y, FALSE)
         ELSE Pair(PyStr(dd_to_dms(r.x, TRUE)), PyStr(dd_to_dms(r.y, FALSE)))
    ELSE None

\* convert_coordinates(x_coord, y_coord, source_crs, target_crs, source_format,
\* target_format) of app2.py
convert_coordinates2(x_coord, y_coord, source_crs, target_crs, source_format, target_format, env) ==
    Let(parse_source(x_coord, y_coord, source_format), LAMBDA p :
        IF p = NonePair THEN Returned(NonePair, <<>>)
        ELSE IF IsExc(p) THEN Raised(p, <<>>)
        ELSE Let(Transform(p.x_dd, p.y_dd, source_crs, target_crs, env), LAMBDA r :
             Let(<<TransformCall(p.x_dd, p.y_dd, source_crs, target_crs)>>, LAMBDA cs :
                 IF IsExc(r) THEN Returned(NonePair, cs)
                 ELSE Let(format_target(r, target_format), LAMBDA out :
                          IF IsExc(out) THEN Returned(NonePair, cs)
                          ELSE Returned(out, cs)))))

\* convert_coordinates(x_coord, y_coord, source_crs, target_crs, source_format) of
\* app3.py
convert_coordinates3(x_coord, y_coord, source_crs, target_crs, source_format, env) ==
    Let(parse_source(x_coord, y_coord, source_format), LAMBDA p :
        IF p = NonePair THEN Returned(NonePair, <<>>)
        ELSE IF IsExc(p) THEN Raised(p, <<>>)
        ELSE Let(Transform(p.x_dd, p.y_dd, source_crs, target_crs, env), LAMBDA r :
             Let(<<TransformCall(p.x_dd, p.y_dd, source_crs, target_crs)>>, LAMBDA cs :
                 IF IsExc(r) THEN Returned(NonePair, cs) ELSE Returned(r, cs))))

(***************************************************************************)
(* app3.py: the chat handler (delegated extraction)                        *)
(***************************************************************************)
\* bool(v) for None, a str, an int or a float
Truthy(v) ==
    IF v = None THEN FALSE
    ELSE IF IsStr(v) THEN v.str # <<>>
    ELSE IF IsInt(v) THEN v.mag # <<>>
    ELSE ~FIsZero(v)

\* lines 234-239: the target identifier from the extracted name; "UTM" in None (or in
\* a number) raises TypeError
target_crs_of(target_cs_name) ==
    IF ~IsStr(target_cs_name) THEN Exc("TypeError")
    ELSE IF ~contains(target_cs_name.str, <<"U", "T", "M">>) THEN [crs |-> "EPSG:4326"]
    ELSE IF contains(target_cs_name.str, <<"4", "8", "N">>) THEN [crs |-> "EPSG:32648"]
    ELSE IF contains(target_cs_name.str, <<"4", "9", "N">>) THEN [crs |-> "EPSG:32649"]
    ELSE IF contains(target_cs_name.str, <<"5", "0", "N">>) THEN [crs |-> "EPSG:32650"]
    ELSE IF contains(target_cs_name.str, <<"4", "8", "S">>) THEN [crs |-> "EPSG:32748"]
    ELSE [crs |-> "EPSG:4326"]

\* the replies of the chat handler of app3.py
\* "Tentu, koordinat hasil konversi Anda adalah: `{x_out}, {y_out}`."
Converted3(x_out, y_out) == [kind |-> "converted", x |-> x_out, y |-> y_out]

\* "Maaf, saya tidak dapat melakukan konversi dengan format tersebut. ..."
CannotConvert3 == [kind |-> "cannot_convert"]

\* "Maaf, saya tidak memahami permintaan Anda. ..."
NotUnderstood3 == [kind |-> "not_understood"]

\* "Terjadi kesalahan saat memproses permintaan: {e}. Mohon coba lagi."
Error3(e) == [kind |-> "error", exc |-> e]

\* what one turn did: the reply, the transform calls, whether convert_coordinates was
\* called, and the document handed to Firestore (None when none is)
Turn3(reply, cs, converted, doc) ==
    [reply |-> reply, calls |-> cs, converted |-> converted, doc |-> doc]

\* lines 243-270, given what convert_coordinates returned
reply_converted(data, target_crs, c) ==
    IF c.ret.x = None THEN Turn3(CannotConvert3, c.calls, TRUE, None)
    ELSE IF data.target_format = DMS /\ ~IsFinite(c.ret.x)
    THEN Turn3(Error3(dd_to_dms(c.ret.x, TRUE).exc), c.calls, TRUE, None)
    ELSE IF data.target_format = DMS /\ ~IsFinite(c.ret.y)
    THEN Turn3(Error3(dd_to_dms(c.ret.y, FALSE).exc), c.calls, TRUE, None)
    ELSE Let(IF data.target_format = DMS
             THEN Pair(PyStr(dd_to_dms(c.ret.x, TRUE)), PyStr(dd_to_dms(c.ret.y, FALSE)))
             ELSE c.ret, LAMBDA out :
             Turn3(Converted3(out.x, out.y), c.calls, TRUE,
                   [original_coords |-> Pair(data.x_coord, data.y_coord),
                    converted_coords |-> out,
                    source_crs |-> "EPSG:4326",
                    target_crs |-> target_crs]))

\* lines 218-278: the body of the try, response being what generate_content and
\* json.loads gave (an exception, or the record read with data.get)
chat_turn3(response, env) ==
    IF IsExc(response) THEN Turn3(Error3(response.exc), <<>>, FALSE, None)
    ELSE IF ~(Truthy(response.x_coord) /\ Truthy(response.y_coord)
              /\ Truthy(response.source_format) /\ Truthy(response.target_format))
    THEN Turn3(NotUnderstood3, <<>>, FALSE, None)
    ELSE Let(target_crs_of(response.target_cs_name), LAMBDA t :
             IF IsExc(t) THEN Turn3(Error3(t.exc), <<>>, FALSE, None)
             ELSE Let(convert_coordinates3(response.x_coord, response.y_coord,
                                           "EPSG:4326", t.crs,
                                           response.source_format, env), LAMBDA c :
                      IF c.raised # "none" THEN Turn3(Error3(c.raised), c.calls, TRUE, None)
                      ELSE reply_converted(response, t.crs, c)))

Message(role, content) == [role |-> role, content |-> content]

(***************************************************************************)
(* SpecInterp: one chat turn, or one call of process_gemini_request, on a  *)
(* request text drawn from a bounded grammar                               *)
(***************************************************************************)
MaxFragWords == 3

\* the words of a display name, lower-cased
Words(name) == split(lower(name), " ")

\* the runs of at most n consecutive words of ws, joined by single spaces
NGrams(ws, n) ==
    UNION { { join(<<" ">>, SubSeq(ws, i, i + k - 1)) : i \in 1..(Len(ws) - k + 1) } :
            k \in 1..n }

\* the fragments of at most n words of the names of entries a..b of the catalogue
NameFragments(a, b, n) ==
    UNION { NGrams(Words(coordinate_systems[i].name), n) : i \in a..b }

\* what may stand after "dari": fragments of the names of the Global category, a name
\* as displayed, a name no entry has, and nothing
SourceFragments ==
    NameFragments(1, 3, MaxFragWords)
    \cup { <<"W", "G", "S", " ", "8", "4">>, <<"s", "i", "s", "t", "e", "m", " ", "l", "a", "i", "n">>, <<>> }

\* what may stand after "ke"
TargetFragments ==
    NameFragments(1, Len(coordinate_systems), MaxFragWords)
    \cup { <<"U", "T", "M", " ", "Z", "o", "n", "a", " ", "4", "8", "N">>, <<"s", "i", "s", "t", "e", "m", " ", "t", "a", "k", " ", "d", "i", "k", "e", "n", "a", "l">>, <<>> }

XTexts == { <<"1", "0", "7", ".", "6", "1", "9", "0", "4", "4">>, <<"a", "b", "c">> }

YTexts == { <<"-", "6", ".", "9", "1", "7", "4", "6", "4">> }

\* "<x><sep><y>[ dari <source>][ ke <target>]" with the separators ",", ", " and " ",
\* the example of the chat tab, the empty text and a lone number
Prompts ==
    { x \o sep \o y \o f \o t :
        x \in XTexts,
        sep \in { <<",">>, <<",", " ">>, <<" ">> },
        y \in YTexts,
        f \in { <<>> } \cup { <<" ", "d", "a", "r", "i", " ">> \o sf : sf \in SourceFragments },
        t \in { <<>> } \cup { <<" ", "k", "e", " ">> \o tf : tf \in TargetFragments } }
    \cup { <<"K", "o", "n", "v", "e", "r", "s", "i", " ", "1", "0", "7", ".", "6", "1", "9", "0", "4", "4", ",", " ", "-", "6", ".", "9", "1", "7", "4", "6", "4", " ", "d", "a", "r", "i", " ", "w", "g", "s", " ", "8", "4", " ", "k", "e", " ", "u", "t", "m", " ", "z", "o", "n", "a", " ", "4", "8", "n", ".">>,
           <<>>, <<"1", "0", "7", ".", "6", "1", "9", "0", "4", "4">> }

\* what the text service can return to the chat handler of app3.py, after json.loads:
\* a failure of the call, a text that is no JSON, or a record; data.get gives None for
\* a key the record lacks
Responses3 ==
    { Exc("ServiceError"), Exc("JSONDecodeError") }
    \cup [ x_coord : { PyStr(<<"1", "0", "7", ".", "6", "1", "8", "6">>), FloatLit(1076186, 4), IntOf(0),
                       PyStr(<<>>), None },
           y_coord : { PyStr(<<"-", "6", ".", "9", "2", "4", "8">>), PyStr(<<"6", "°", " ", "5", "5", "'", " ", "3", "8", ".", "8", "7", "\"", " ", "S">>), IntOf(0), None },
           source_format : { DD, DMS, UTM, PyStr(<<>>), None },
           target_format : { DD, DMS, UTM, None },
           target_cs_name : { PyStr(<<"U", "T", "M", " ", "Z", "o", "n", "a", " ", "4", "9", "N">>), PyStr(<<"U", "T", "M">>), PyStr(<<"W", "G", "S", " ", "8", "4">>),
                              PyStr(<<"s", "i", "s", "t", "e", "m", " ", "t", "a", "k", " ", "d", "i", "k", "e", "n", "a", "l">>), PyStr(<<>>), None } ]

\* what the text service can return to the chat handler of app.py: a text, or a
\* failure of the call
Responses1 == { [kind |-> "service_text"], Exc("ServiceError") }

Prompts3 ==
    { <<"k", "o", "n", "v", "e", "r", "s", "i", " ", "-", "6", ".", "9", "2", "4", "8", ",", " ", "1", "0", "7", ".", "6", "1", "8", "6", " ", "k", "e", " ", "U", "T", "M">>,
      <<"k", "o", "n", "v", "e", "r", "s", "i", " ", "-", "6", ".", "9", "2", "4", "8", ",", " ", "1", "0", "7", ".", "6", "1", "8", "6", " ", "k", "e", " ", "s", "i", "s", "t", "e", "m", " ", "t", "a", "k", " ", "d", "i", "k", "e", "n", "a", "l">> }

\* a turn of app.py, or a turn of app3.py with its two initialisation flags
InterpArgs ==
    { [app |-> "app", prompt |-> p] : p \in Prompts }
    \cup { [app |-> "app3", prompt |-> p, gemini_initialized |-> g,
            firebase_initialized |-> f, response |-> None] :
            p \in Prompts3, g \in BOOLEAN, f \in BOOLEAN }

InitInterp ==
    /\ op = "idle"
    /\ arg \in InterpArgs
    /\ ret = None
    /\ calls = <<>>
    /\ raised = "none"
    /\ messages = <<>>
    /\ generated = 0
    /\ documents = <<>>
    /\ pending = None

\* process_gemini_request(arg.prompt, coordinate_systems)
Call_process_gemini_request ==
    /\ op = "idle"
    /\ arg.app = "app"
    /\ \E env \in TransformOutcomes :
       \E r \in { process_gemini_request(arg.prompt, coordinate_systems, env) } :
         /\ op' = "process_gemini_request"
         /\ ret' = r.ret
         /\ calls' = r.calls
         /\ raised' = r.raised
    /\ UNCHANGED <<arg, messages, generated, documents, pending>>

\* lines 190-202 of app.py: the chat handler takes the prompt, appends the user
\* message and runs the local extraction; a resolved request is answered at once, an
\* unresolved one is sent to the text service, whose answer the handler then waits for
ChatTurn1 ==
    /\ op = "idle"
    /\ arg.app = "app"
    /\ arg.prompt # <<>>                    \* if prompt := st.chat_input(...)
    /\ \E env \in TransformOutcomes :
       \E r \in { process_gemini_request(arg.prompt, coordinate_systems, env) } :
         /\ calls' = r.calls
         /\ IF r.raised # "none"
            THEN /\ op' = "chat1"
                 /\ raised' = r.raised
                 /\ ret' = None
                 /\ generated' = generated
                 /\ messages' = Append(messages, Message("user", arg.prompt))
            ELSE IF r.ret \in {NotFoundReply, BadFormatReply}
            THEN /\ op' = "chat1_generate"    \* model.generate_content(...) is called
                 /\ raised' = "none"
                 /\ ret' = None
                 /\ generated' = generated + 1
                 /\ messages' = Append(messages, Message("user", arg.prompt))
            ELSE /\ op' = "chat1"
                 /\ raised' = "none"
                 /\ ret' = r.ret
                 /\ generated' = generated
                 /\ messages' = messages \o <<Message("user", arg.prompt),
                                              Message("assistant", r.ret)>>
    /\ UNCHANGED <<arg, documents, pending>>

\* lines 202-206 of app.py: generate_content returns a text, which becomes the reply,
\* or fails, and the failure escapes the handler
ChatReply1 ==
    /\ op = "chat1_generate"
    /\ op' = "chat1"
    /\ \E g \in Responses1 :
         IF IsExc(g)
         THEN /\ raised' = g.exc
              /\ ret' = None
              /\ messages' = messages
         ELSE /\ raised' = "none"
              /\ ret' = g
              /\ messages' = Append(messages, Message("assistant", g))
    /\ UNCHANGED <<arg, calls, generated, documents, pending>>

\* lines 208-220 of app3.py: the chat handler takes the prompt and appends the user
\* message; without the text service the turn ends there with a warning, otherwise
\* generate_content is called and the handler waits for its answer
ChatTurn3 ==
    /\ op = "idle"
    /\ arg.app = "app3"
    /\ arg.prompt # <<>>                    \* if prompt := st.chat_input(...)
    /\ messages' = Append(messages, Message("user", arg.prompt))
    /\ IF ~arg.gemini_initialized
       THEN op' = "chat3" /\ generated' = generated
       ELSE op' = "chat3_generate" /\ generated' = generated + 1
    /\ UNCHANGED <<arg, ret, calls, raised, documents, pending>>

\* lines 220-278 of app3.py without the write: generate_content returns or fails, and
\* the handler appends its reply; after a conversion, with Firestore initialised, it
\* hands the document to doc_ref.set and waits for the write
ChatReply3 ==
    /\ op = "chat3_generate"
    /\ \E response \in Responses3, env \in TransformOutcomes :
       \E r \in { chat_turn3(response, env) } :
         /\ arg' = [arg EXCEPT !.response = response]
         /\ calls' = r.calls
         /\ ret' = r.reply
         /\ messages' = Append(messages, Message("assistant", r.reply))
         /\ IF r.doc # None /\ arg.firebase_initialized
            THEN op' = "chat3_save" /\ pending' = r.doc
            ELSE op' = "chat3" /\ pending' = None
    /\ UNCHANGED <<raised, generated, documents>>

\* lines 256-266 of app3.py: doc_ref.set returns and the document is written, or it
\* fails, which is reported with st.error and changes nothing else
ChatSave3 ==
    /\ op = "chat3_save"
    /\ op' = "chat3"
    /\ \E save_ok \in BOOLEAN :
         documents' = IF save_ok THEN Append(documents, pending) ELSE documents
    /\ pending' = None
    /\ UNCHANGED <<arg, ret, calls, raised, messages, generated>>

NextInterp ==
    \/ Call_process_gemini_request
    \/ ChatTurn1
    \/ ChatReply1
    \/ ChatTurn3
    \/ ChatReply3
    \/ ChatSave3

SpecInterp == InitInterp /\ [][NextInterp]_vars

(***************************************************************************)
(* SpecConvert: one call of convert_coordinates, in each of its variants   *)
(***************************************************************************)
\* the raw coordinates of the form fields
RawCoords ==
    { PyStr(<<"1", "0", "7", ".", "6", "1", "8", "6">>), PyStr(<<"-", "6", ",", "9", "2", "4", "8">>), PyStr(<<"6", "°", " ", "5", "5", "'", " ", "3", "8", ".", "8", "7", "\"", " ", "S">>),
      PyStr(<<"a", "b", "c">>) }

\* the numbers process_gemini_request, the manual form and the rows of an uploaded
\* file hand to convert_coordinates of app.py
NumberCoords == { FloatLit(1076186, 4), FloatLit(-69248, 4), Zero(FALSE), Inf }

\* identifiers of the catalogue, and one that pyproj does not recognise
CrsIds == { "EPSG:4326", "EPSG:32648", "EPSG:0000" }

Formats == { DD, DMS, UTM }

ConvertArgs ==
    { [app |-> "app", x_coord |-> x, y_coord |-> y, source_crs |-> s, target_crs |-> t,
       outcome |-> None] :
        x \in NumberCoords, y \in NumberCoords, s \in CrsIds, t \in CrsIds }
    \cup { [app |-> a, x_coord |-> x, y_coord |-> y, source_crs |-> s, target_crs |-> t,
            source_format |-> sf, target_format |-> tf, outcome |-> None] :
            a \in {"app2", "app3"}, x \in RawCoords, y \in RawCoords,
            s \in CrsIds, t \in CrsIds, sf \in Formats, tf \in Formats }

InitConvert ==
    /\ op = "idle"
    /\ arg \in ConvertArgs
    /\ ret = None
    /\ calls = <<>>
    /\ raised = "none"
    /\ messages = <<>>
    /\ generated = 0
    /\ documents = <<>>
    /\ pending = None

\* convert_coordinates of app.py; arg.outcome records what the transform did
Call_convert_coordinates1 ==
    /\ op = "idle"
    /\ arg.app = "app"
    /\ \E env \in TransformOutcomes :
       \E r \in { convert_coordinates1(arg.x_coord, arg.y_coord, arg.source_crs,
                                       arg.target_crs, env) } :
         /\ op' = "convert_coordinates1"
         /\ arg' = [arg EXCEPT !.outcome = Transform(arg.x_coord, arg.y_coord,
                                                      arg.source_crs, arg.target_crs, env)]
         /\ ret' = r.ret
         /\ calls' = r.calls
         /\ raised' = r.raised
    /\ UNCHANGED <<messages, generated, documents, pending>>

\* convert_coordinates of app2.py
Call_convert_coordinates2 ==
    /\ op = "idle"
    /\ arg.app = "app2"
    /\ \E env \in TransformOutcomes :
       \E r \in { convert_coordinates2(arg.x_coord, arg.y_coord, arg.source_crs,
                                       arg.target_crs, arg.source_format,
                                       arg.target_format, env) } :
         /\ op' = "convert_coordinates2"
         /\ arg' = [arg EXCEPT !.outcome =
                      IF r.calls = <<>> THEN None
                      ELSE Transform(r.calls[1].x, r.calls[1].y, arg.source_crs,
                                     arg.target_crs, env)]
         /\ ret' = r.ret
         /\ calls' = r.calls
         /\ raised' = r.raised
    /\ UNCHANGED <<messages, generated, documents, pending>>

\* convert_coordinates of app3.py
Call_convert_coordinates3 ==
    /\ op = "idle"
    /\ arg.app = "app3"
    /\ \E env \in TransformOutcomes :
       \E r \in { convert_coordinates3(arg.x_coord, arg.y_coord, arg.source_crs,
                                       arg.target_crs, arg.source_format, env) } :
         /\ op' = "convert_coordinates3"
         /\ arg' = [arg EXCEPT !.outcome =
                      IF r.calls = <<>> THEN None
                      ELSE Transform(r.calls[1].x, r.calls[1].y, arg.source_crs,
                                     arg.target_crs, env)]
         /\ ret' = r.ret
         /\ calls' = r.calls
         /\ raised' = r.raised
    /\ UNCHANGED <<messages, generated, documents, pending>>

NextConvert ==
    Call_convert_coordinates1 \/ Call_convert_coordinates2 \/ Call_convert_coordinates3

SpecConvert == InitConvert /\ [][NextConvert]_vars

(***************************************************************************)
(* Claims about RequestInterpreter (checked under SpecInterp) and          *)
(* ConversionOrchestrator (checked under SpecConvert)                      *)
(***************************************************************************)
\* the positions of the entries whose display name contains f, letter case ignored
Matching(catalogue, f) ==
    { i \in 1..Len(catalogue) : contains(lower(catalogue[i].name), lower(f)) }

\* the identifier of the first of them in declaration order
FirstEntry(catalogue, f) ==
    catalogue[CHOOSE i \in Matching(catalogue, f) :
                  \A k \in Matching(catalogue, f) : i <= k].crs

\* f is a non-empty part of some display name
NamesAnEntry(catalogue, f) == f # <<>> /\ Matching(catalogue, f) # {}

\* f is a name, and no display name contains it
NamesNoEntry(catalogue, f) == f # <<>> /\ Matching(catalogue, f) = {}

EndsWith(s, suffix) ==
    Len(suffix) <= Len(s) /\ SubSeq(s, Len(s) - Len(suffix) + 1, Len(s)) = suffix

\* the requests "<x>, <y> dari <source> ke <target>" of the grammar whose numbers are
\* decimal numbers and whose fragments are parts of display names
CommaSpaceRequests ==
    { [prompt |-> x \o <<",", " ">> \o y \o <<" ", "d", "a", "r", "i", " ">> \o f \o <<" ", "k", "e", " ">> \o t,
       x |-> float(x), y |-> float(y),
       source_crs |-> FirstEntry(coordinate_systems, f),
       target_crs |-> FirstEntry(coordinate_systems, t)] :
        x \in { v \in XTexts : IsNumber(float(v)) },
        y \in { v \in YTexts : IsNumber(float(v)) },
        f \in { v \in SourceFragments : NamesAnEntry(coordinate_systems, v) },
        t \in { v \in TargetFragments : NamesAnEntry(coordinate_systems, v) } }

\* C6: for every request "<x>, <y> dari <source fragment> ke <target fragment>" with a
\* comma and a space between two decimal numbers and fragments that are parts of
\* display names, process_gemini_request calls the transform once, with (x, y, the
\* identifier of the first entry containing the source fragment, that of the first
\* entry containing the target fragment), and returns neither the wrong-format nor the
\* not-found failure.
C6_CommaSpaceResolved ==
    (op = "process_gemini_request") =>
        \A q \in CommaSpaceRequests :
            (arg.prompt = q.prompt) =>
                /\ calls = <<TransformCall(q.x, q.y, q.source_crs, q.target_crs)>>
                /\ ret \notin {BadFormatReply, NotFoundReply}

\* the clauses " ke <name>" of the grammar whose name no display name contains
UnknownTargetClauses ==
    { <<" ", "k", "e", " ">> \o t :
        t \in { v \in TargetFragments : NamesNoEntry(coordinate_systems, v) } }

\* C7: a request whose target name is contained in no display name of the catalogue
\* ends in a failure reply, with no exception escaping and no call of the transform:
\* on the local path (process_gemini_request on "... ke <name>") and on the delegated
\* path (the chat handler of app3.py on a record whose target_cs_name is that name).
C7_UnknownTargetNoTransform ==
    /\ (op = "process_gemini_request"
        /\ \E suffix \in UnknownTargetClauses : EndsWith(arg.prompt, suffix))
       => (raised = "none" /\ calls = <<>> /\ ret \in {NotFoundReply, BadFormatReply})
    /\ (op = "chat3" /\ arg.gemini_initialized /\ ~IsExc(arg.response)
        /\ IsStr(arg.response.target_cs_name)
        /\ NamesNoEntry(coordinate_systems3, arg.response.target_cs_name.str))
       => (raised = "none" /\ calls = <<>> /\ ret.kind # "converted")

\* an axis of a form parses under the source format
AxisParses(v, source_format) ==
    IF source_format = DMS THEN dms_to_dd_of(v) # None ELSE float_of(v) # ValueError

\* C8: convert_coordinates never raises and returns either two outputs or (None, None);
\* when an axis does not parse the transform is not called; when the transform fails
\* (an unrecognised identifier, or any other failure) the result is (None, None).
C8_NeverPartial ==
    (op \in {"convert_coordinates1", "convert_coordinates2"}) =>
        /\ raised = "none"
        /\ ret = NonePair \/ (DOMAIN ret = {"x", "y"} /\ ret.x # None /\ ret.y # None)
        /\ (arg.app = "app2"
            /\ ~(AxisParses(arg.x_coord, arg.source_format)
                 /\ AxisParses(arg.y_coord, arg.source_format)))
           => calls = <<>>
        /\ IsExc(arg.outcome) => ret = NonePair

RequiredKeys == {"x_coord", "y_coord", "source_format", "target_format", "target_cs_name"}

\* a key the record lacks (data.get gives None), or an empty text
MissingOrEmpty(v) == v = None \/ v = PyStr(<<>>)

\* C9: on the delegated path, a record with a missing or empty required key (x_coord,
\* y_coord, source_format, target_format, target_cs_name) gets the "request not
\* understood" reply, and no conversion is attempted.
C9_IncompleteRecordFails ==
    (op = "chat3" /\ arg.gemini_initialized /\ ~IsExc(arg.response)
     /\ \E k \in RequiredKeys : MissingOrEmpty(arg.response[k]))
    => (ret = NotUnderstood3 /\ calls = <<>>)

\* the requests "<x><sep><y> ke <target>" of the grammar without a "dari" clause, the
\* numbers decimal and separated by a comma or a space, the target a part of a display
\* name
NoSourceRequests ==
    { [prompt |-> x \o sep \o y \o <<" ", "k", "e", " ">> \o t,
       x |-> float(x), y |-> float(y),
       target_crs |-> FirstEntry(coordinate_systems, t)] :
        x \in { v \in XTexts : IsNumber(float(v)) },
        y \in { v \in YTexts : IsNumber(float(v)) },
        sep \in { <<",">>, <<" ">> },
        t \in { v \in TargetFragments : NamesAnEntry(coordinate_systems, v) } }

\* C10: a request without a "dari" clause, with two numbers and a resolvable target, is
\* converted with EPSG:4326 as the source: process_gemini_request calls the transform
\* with that source and returns no failure for the missing clause; and every transform
\* call of the delegated path has EPSG:4326 as its source.
C10_SourceDefaults ==
    /\ (op = "process_gemini_request") =>
          \A q \in NoSourceRequests :
              (arg.prompt = q.prompt) =>
                  /\ calls = <<TransformCall(q.x, q.y, "EPSG:4326", q.target_crs)>>
                  /\ ret \notin {BadFormatReply, NotFoundReply}
    /\ (op = "chat3") => \A i \in 1..Len(calls) : calls[i].source_crs = "EPSG:4326"

(***************************************************************************)
(* Further claims about AngleNotation (checked under SpecAngle)            *)
(***************************************************************************)
\* dd_to_dms was called with (-6.9248, is_lon=False)
C11_Case ==
    /\ op = "dd_to_dms"
    /\ arg.dd_val = FloatLit(-69248, 4)
    /\ ~arg.is_lon

\* C11 as stated: dd_to_dms(-6.9248, is_lon=False) is the text "6° 55' 28.80\" S"
\* (degrees 6, minutes 55, seconds 28.80, letter S).
C11_Seconds2880 ==
    C11_Case => ret.text = <<"6", "°", " ", "5", "5", "'", " ", "2", "8", ".", "8", "0", "\"", " ", "S">>

\* C11 as amended: dd_to_dms(-6.9248, is_lon=False) has degrees 6, minutes 55, seconds
\* 29.28 to two fractional digits (0.9248 * 60 = 55.488, 0.488 * 60 = 29.28) and
\* letter S: it is the text "6° 55' 29.28\" S".
C11_Seconds2928 ==
    C11_Case =>
        /\ ret.text = <<"6", "°", " ", "5", "5", "'", " ", "2", "9", ".", "2", "8", "\"", " ", "S">>
        /\ abs_int(dms_fields(arg.dd_val).degrees) = IntOf(6)
        /\ dms_fields(arg.dd_val).minutes = IntOf(55)
        /\ Hundredths(dms_fields(arg.dd_val).seconds) = BNat(2928)

\* dd_to_dms(-6.9248, is_lon=False) has returned a text ending in S
C11_Witness ==
    /\ C11_Case
    /\ ret.text[Len(ret.text)] = "S"

(***************************************************************************)
(* Further claims about RequestInterpreter (checked under SpecInterp)      *)
(***************************************************************************)
\* the local extraction of the turn's text ends in the not-found or the wrong-format
\* failure (both are decided before the transform is called)
LocalExtractionFailed ==
    process_gemini_request(arg.prompt, coordinate_systems, Pair(Inf, Inf)).ret
        \in {NotFoundReply, BadFormatReply}

\* C12: in a chat turn of app.py the text service is called (once) if and only if the
\* local extraction returned the not-found or the wrong-format failure; when the local
\* extraction resolved the request the text service is not called, whether the
\* conversion succeeded or failed; and the turn leaves the user message followed by
\* exactly one assistant reply in the history.
C12_StrategiesInOrder ==
    (op = "chat1") =>
        /\ generated = (IF LocalExtractionFailed THEN 1 ELSE 0)
        /\ LocalExtractionFailed => calls = <<>>
        /\ Len(messages) = 2
        /\ messages[1] = Message("user", arg.prompt)
        /\ messages[2].role = "assistant"

\* the requests "<x><sep><y> dari <source> ke <target>" of the grammar, the numbers
\* decimal and separated by a comma or a space, in which nothing stands between "dari"
\* and "ke" or nothing follows "ke"
EmptyFragmentRequests ==
    { x \o sep \o y \o <<" ", "d", "a", "r", "i", " ">> \o ft[1] \o <<" ", "k", "e", " ">> \o ft[2] :
        x \in { v \in XTexts : IsNumber(float(v)) },
        y \in { v \in YTexts : IsNumber(float(v)) },
        sep \in { <<",">>, <<" ">> },
        ft \in { p \in SourceFragments \X TargetFragments :
                    p[1] = <<>> \/ p[2] = <<>> } }

\* C13: for every request in which nothing stands between "dari" and "ke", or nothing
\* follows "ke", process_gemini_request returns the not-found failure and makes no call
\* of the transform.
C13_EmptyFragmentNotFound ==
    (op = "process_gemini_request" /\ arg.prompt \in EmptyFragmentRequests)
        => (ret = NotFoundReply /\ calls = <<>>)

\* C14: on the delegated path a record with coordinate values on both axes, the number
\* 0 included, and non-empty source_format, target_format and target_cs_name is handed to
\* convert_coordinates: the "request not understood" reply is given only for a record
\* that lacks a field (the key is missing, or its text is empty).
C14_ZeroCoordinateConverted ==
    (op = "chat3" /\ arg.gemini_initialized /\ ~IsExc(arg.response)
     /\ ret = NotUnderstood3)
    => \E k \in RequiredKeys : MissingOrEmpty(arg.response[k])

\* the numeric fields of the text dd_to_dms returned: degrees, minutes, seconds
DmsTextFields == findall(ret.text, 1)

\* C15: in every text dd_to_dms produces, the minutes field is an integer in 0..59 and
\* the seconds field, as printed with two fractional digits, is at least 0.00 and less
\* than 60.00.
C15_WellFormedDms ==
    (op = "dd_to_dms" /\ raised = "none") =>
        /\ Len(DmsTextFields) = 3
        /\ float(DmsTextFields[2]) = float_of_int(int(float(DmsTextFields[2])))
        /\ FNonNegative(float(DmsTextFields[2]))
        /\ AbsAtMost(float(DmsTextFields[2]), 59, 1)
        /\ FNonNegative(float(DmsTextFields[3]))
        /\ DiffBelow(float(DmsTextFields[3]), Zero(FALSE), 60, 1)

====
